---- MODULE Spec2Model ----
\* Prompt Studio: the timeline of SceneGenerationStudio / InteractiveTimeline.
\* The interval-to-lane layout (calculateLayout), the drag-reflow of events
\* (handleMouseDown / handleMouseMove / handleMouseUp), the scrubber that
\* creates events (TimeScrubber) and the state of the studio they act on.
EXTENDS Integers, Sequences, FiniteSets, TLC

VARIABLES
    promptType,      \* useState<PromptType>                      (studio)
    subjects,        \* useState<Subject[]>                       (studio)
    params,          \* useState<{[key]: any}>: category -> key -> value
    timeline,        \* useState<TimelineEvent[]>                 (studio)
    animatedParams,  \* useState<{[key]: boolean}>: the keys that are true
    scrub,           \* the mounted TimeScrubbers: paramKey -> its local state
    draggingEvent,   \* useState<{id, startOffset} | null>   (InteractiveTimeline)
    lastUpdate,      \* what the last handler passed to onEventUpdate, None if it did not call it
    alerted,         \* the field label of the alert() the last handler raised, None if it raised none
    nextId,          \* the ids made so far: 1 .. nextId - 1
    listenerEvents,  \* the events prop the window listeners closed over when the effect last subscribed them
    allEvents,       \* argument of a call of calculateLayout
    result           \* what that call returned, None before the call

vars == <<promptType, subjects, params, timeline, animatedParams, scrub,
          draggingEvent, lastUpdate, alerted, nextId, listenerEvents,
          allEvents, result>>

appVars == <<promptType, subjects, params, timeline, animatedParams, scrub,
             draggingEvent, lastUpdate, alerted, nextId, listenerEvents>>

layoutVars == <<allEvents, result>>

None == [none |-> TRUE]

Min(a, b) == IF a <= b THEN a ELSE b
Max(a, b) == IF a >= b THEN a ELSE b

Range(s) == { s[i] : i \in DOMAIN s }

\* Array.prototype.filter
RECURSIVE SelectSeqBy(_, _)
SelectSeqBy(s, keep) ==
    IF s = <<>> THEN <<>>
    ELSE IF Head(s) \in keep THEN <<Head(s)>> \o SelectSeqBy(Tail(s), keep)
         ELSE SelectSeqBy(Tail(s), keep)

\* ---------------------------------------------------------------------------
\* calculateLayout
\* ---------------------------------------------------------------------------

\* As InsertByStart, but e goes in front of the elements with an equal start.
RECURSIVE InsertByStart_Unstable(_, _)
InsertByStart_Unstable(sorted, e) ==
    IF sorted = <<>> THEN <<e>>
    ELSE IF Head(sorted).start - e.start >= 0
         THEN <<e>> \o sorted
         ELSE <<Head(sorted)>> \o InsertByStart_Unstable(Tail(sorted), e)

\* Insertion of e behind every element whose start is <= e.start: the step of
\* a stable sort with the comparator (a, b) => a.start - b.start.
RECURSIVE InsertByStart(_, _)
InsertByStart(sorted, e) ==
    IF sorted = <<>> THEN <<e>>
    ELSE IF Head(sorted).start - e.start > 0
         THEN <<e>> \o sorted
         ELSE <<Head(sorted)>> \o InsertByStart(Tail(sorted), e)

\* As SortByStart, without the sort: the events in the order of the list.
SortByStart_Unsorted(s) == s

\* [...allEvents].sort((a, b) => a.start - b.start)
RECURSIVE SortByStart(_)
SortByStart(s) ==
    IF s = <<>> THEN <<>>
    ELSE InsertByStart(SortByStart(SubSeq(s, 1, Len(s) - 1)), s[Len(s)])

\* As LaneIsFree, with < for <=: a lane whose event ends at the start is taken.
LaneIsFree_Strict(laneEnd, event) == laneEnd < event.start

\* As LaneIsFree, compared with the end of the event instead of its start.
LaneIsFree_ByEnd(laneEnd, event) == laneEnd <= event.end

\* As LaneIsFree, with >= for <=: a lane is taken while its event still runs.
LaneIsFree_Reversed(laneEnd, event) == laneEnd >= event.start

\* The lane test of the inner loop: lanes[i] <= event.start
LaneIsFree(laneEnd, event) == laneEnd <= event.start

\* As FirstFreeLane, without the break: the last free lane wins.
FirstFreeLane_Last(lanes, event) ==
    LET free == { i \in DOMAIN lanes : LaneIsFree(lanes[i], event) }
    IN  IF free = {} THEN 0 ELSE CHOOSE i \in free : \A j \in free : i >= j

\* The inner for loop: the first index i with lanes[i] <= event.start, 0 when
\* the loop ends with placed = false. Lanes are 1-based here, lane numbers 0-based.
FirstFreeLane(lanes, event) ==
    LET free == { i \in DOMAIN lanes : LaneIsFree(lanes[i], event) }
    IN  IF free = {} THEN 0 ELSE CHOOSE i \in free : \A j \in free : i <= j

\* As PlaceEvent, the lane of a new lane read as lanes.length after the push.
PlaceEvent_LengthAfterPush(acc, event) ==
    LET i == FirstFreeLane(acc.lanes, event)
    IN  IF i # 0
        THEN [layout |-> Append(acc.layout, [event |-> event, lane |-> i - 1]),
              lanes  |-> [acc.lanes EXCEPT ![i] = event.end]]
        ELSE [layout |-> Append(acc.layout, [event |-> event, lane |-> Len(acc.lanes) + 1]),
              lanes  |-> Append(acc.lanes, event.end)]

\* One iteration of the outer loop on the accumulator [layout, lanes].
PlaceEvent(acc, event) ==
    LET i == FirstFreeLane(acc.lanes, event)
    IN  IF i # 0
        THEN [layout |-> Append(acc.layout, [event |-> event, lane |-> i - 1]),
              lanes  |-> [acc.lanes EXCEPT ![i] = event.end]]
        ELSE [layout |-> Append(acc.layout, [event |-> event, lane |-> Len(acc.lanes)]),
              lanes  |-> Append(acc.lanes, event.end)]

RECURSIVE PlaceAll(_, _)
PlaceAll(acc, sortedEvents) ==
    IF sortedEvents = <<>> THEN acc
    ELSE PlaceAll(PlaceEvent(acc, Head(sortedEvents)), Tail(sortedEvents))

calculateLayout(events) ==
    LET acc == PlaceAll([layout |-> <<>>, lanes |-> <<>>], SortByStart(events))
    IN  [layout |-> acc.layout, totalLanes |-> Len(acc.lanes)]

\* ---------------------------------------------------------------------------
\* Calls of calculateLayout on bounded event lists
\* ---------------------------------------------------------------------------

LayoutMaxEvents == 4     \* longest list handed to calculateLayout
LayoutMaxTime == 3       \* largest end of an event in such a list

\* Events of the lists: start < end, whole seconds, as the scrubber and the
\* drag produce them. The id is the position in the list.
LayoutIntervals ==
    { <<s, e>> : s \in 0..LayoutMaxTime, e \in 0..LayoutMaxTime } \cap
    { p \in (0..LayoutMaxTime) \X (0..LayoutMaxTime) : p[1] < p[2] }

EventList(n, f) == [i \in 1..n |-> [id |-> i, start |-> f[i][1], end |-> f[i][2]]]

\* ---------------------------------------------------------------------------
\* Strings and the duration setting
\* ---------------------------------------------------------------------------

\* A JavaScript string is a sequence of one-character strings; '' is <<>>.
Digits == {"0", "1", "2", "3", "4", "5", "6", "7", "8", "9"}

DigitValue(c) ==
    CASE c = "0" -> 0 [] c = "1" -> 1 [] c = "2" -> 2 [] c = "3" -> 3 [] c = "4" -> 4
      [] c = "5" -> 5 [] c = "6" -> 6 [] c = "7" -> 7 [] c = "8" -> 8 [] c = "9" -> 9

\* String.prototype.replace(c, ''): the first occurrence of c is removed.
RECURSIVE RemoveFirst(_, _)
RemoveFirst(str, c) ==
    IF str = <<>> THEN <<>>
    ELSE IF Head(str) = c THEN Tail(str)
         ELSE <<Head(str)>> \o RemoveFirst(Tail(str), c)

RECURSIVE SkipSpaces(_)
SkipSpaces(str) ==
    IF str # <<>> /\ Head(str) = " " THEN SkipSpaces(Tail(str)) ELSE str

\* The value of the longest prefix of digits, read left to right from acc.
RECURSIVE DigitsValue(_, _)
DigitsValue(str, acc) ==
    IF str = <<>> \/ Head(str) \notin Digits THEN acc
    ELSE DigitsValue(Tail(str), 10 * acc + DigitValue(Head(str)))

\* parseInt(str, 10): leading blanks, a sign, then digits; NaN without a digit.
\* The result is [nan |-> TRUE] or [nan |-> FALSE, value |-> the integer].
parseInt(str) ==
    LET t    == SkipSpaces(str)
        neg  == t # <<>> /\ Head(t) = "-"
        body == IF t # <<>> /\ Head(t) \in {"-", "+"} THEN Tail(t) ELSE t
    IN  IF body = <<>> \/ Head(body) \notin Digits THEN [nan |-> TRUE]
        ELSE [nan |-> FALSE,
              value |-> IF neg THEN 0 - DigitsValue(body, 0) ELSE DigitsValue(body, 0)]

DefaultDuration == 12

\* params.technical?.duration?.[0]?.replace('s', ''), '' standing for undefined
\* as well (both are falsy in the || that follows).
DurationText(p) ==
    IF "technical" \in DOMAIN p /\ "duration" \in DOMAIN p["technical"]
       /\ p["technical"]["duration"] # <<>>
    THEN RemoveFirst(p["technical"]["duration"][1], "s")
    ELSE <<>>

\* parseInt(params.technical?.duration?.[0]?.replace('s', '') || '12', 10) || 12
DurationOf(p) ==
    LET replaced == DurationText(p)
        n        == parseInt(IF replaced = <<>> THEN <<"1", "2">> ELSE replaced)
    IN  IF n.nan \/ n.value = 0 THEN DefaultDuration ELSE n.value

duration == DurationOf(params)

\* ---------------------------------------------------------------------------
\* The studio: fields, subjects, parameter tree
\* ---------------------------------------------------------------------------

MaxSubjects == 2     \* most subjects in the subject list
MaxEvents == 1       \* most events in the timeline
MaxIds == 3          \* ids made in one run

\* Pointer positions as fractions <<numerator, denominator>>, exact in binary
\* floating point. PointerPositions: mouseX / timelineRect.width, before the
\* clamp to 0..1. GrabPositions: mouseX / eventRect.width at the mouse down.
PointerPositions == { <<-1, 4>>, <<0, 1>>, <<1, 2>>, <<1, 1>>, <<5, 4>> }
GrabPositions == { <<0, 1>>, <<1, 2>> }

PromptTypes == {"Image", "Video", "VideoWithSound"}

\* The fields of the form the runs edit. One path per kind: an animatable
\* category, the duration setting, and one attribute of a subject.
ActionPath == <<"scene", "action">>
DurationPath == <<"technical", "duration">>
NegativePath == <<"technical", "negativeKeywords">>
RulesPath == <<"rules", "negativeKeywords">>
SubjectKeys == {"pose"}

\* What the chip input of a field hands to handleChange.
DurationValues == { <<>>, << <<"1", "s">> >> }
FieldValues == { << <<"r", "u", "n">> >> }

\* String.prototype.split(','): the pieces between the commas, one piece for ''.
RECURSIVE SplitAtCommas(_, _)
SplitAtCommas(str, piece) ==
    IF str = <<>> THEN << piece >>
    ELSE IF Head(str) = "," THEN << piece >> \o SplitAtCommas(Tail(str), <<>>)
         ELSE SplitAtCommas(Tail(str), Append(piece, Head(str)))

\* String.prototype.trim() for blanks
RECURSIVE TrimEnd(_)
TrimEnd(str) ==
    IF str # <<>> /\ str[Len(str)] = " " THEN TrimEnd(SubSeq(str, 1, Len(str) - 1)) ELSE str

Trim(str) == TrimEnd(SkipSpaces(str))

\* What the textarea of a field without options hands to handleChange:
\* e.target.value.split(',').map(s => s.trim())
TextareaValue(text) ==
    LET pieces == SplitAtCommas(text, <<>>)
    IN  [i \in DOMAIN pieces |-> Trim(pieces[i])]

\* The texts typed into a textarea: an emptied one, and one that starts with a comma.
TextareaTexts == { <<>>, <<",", " ", "a">> }

\* The scrubber cells the pointer visits.
VisitedCells == {0, 1}

\* paramKey of renderField: `${subject.id}-${path}` or path; subj = 0 without subject.
ParamKey(subjectId, path) == [subj |-> subjectId, path |-> path]

SubjectIds(subs) == { subs[i].id : i \in DOMAIN subs }

\* The fields renderField is called for.
RenderedKeys(subs) ==
    { ParamKey(0, ActionPath), ParamKey(0, DurationPath), ParamKey(0, NegativePath),
      ParamKey(0, RulesPath) } \cup
    { ParamKey(id, <<"subjects", k>>) : id \in SubjectIds(subs), k \in SubjectKeys }

\* isAnimatable of renderField
isAnimatable(pt, category) ==
    pt # "Image" /\ category \notin {"directorNotes", "technical", "rules"}

\* subjects.find(s => s.id === id): the first subject with that id
FindSubject(subs, id) ==
    subs[CHOOSE i \in DOMAIN subs :
            subs[i].id = id /\ \A j \in DOMAIN subs : subs[j].id = id => i <= j]

\* currentValue of renderField: subject[subCategory] || [], params[category]?.[subCategory] || []
CurrentValue(subs, p, key) ==
    IF key.subj # 0
    THEN LET attrs == FindSubject(subs, key.subj).attrs
         IN  IF key.path[2] \in DOMAIN attrs THEN attrs[key.path[2]] ELSE <<>>
    ELSE IF key.path[1] \in DOMAIN p /\ key.path[2] \in DOMAIN p[key.path[1]]
         THEN p[key.path[1]][key.path[2]]
         ELSE <<>>

\* A TimeScrubber before a selection: start and end null (-1 here).
ScrubIdle == [start |-> -1, end |-> -1, isSelecting |-> FALSE]

\* {animatedParams[paramKey] && isAnimatable && <TimeScrubber .../>}: the
\* scrubbers mounted after a render; one that stays mounted keeps its state.
Mounted(old, pt, subs, anim) ==
    LET keys == { k \in RenderedKeys(subs) : k \in anim /\ isAnimatable(pt, k.path[1]) }
    IN  [k \in keys |-> IF k \in DOMAIN old THEN old[k] ELSE ScrubIdle]

EmptyObject == [x \in {} |-> <<>>]

NewSubject(id, n) == [id |-> id, name |-> n, attrs |-> EmptyObject]

\* Object with key k set to v, and with key k deleted.
SetKey(obj, k, v) == [x \in DOMAIN obj \cup {k} |-> IF x = k THEN v ELSE obj[x]]
DeleteKey(obj, k) == [x \in DOMAIN obj \ {k} |-> obj[x]]

\* As ParamChanged, with an empty value stored as any other.
ParamChanged_EmptyStored(p, path, value) ==
    LET category == IF path[1] \in DOMAIN p THEN p[path[1]] ELSE EmptyObject
    IN  SetKey(p, path[1], SetKey(category, path[2], value))

\* The updater of handleParamChange for a path category.subCategory and a
\* list value: the category is created on the way down, an empty value
\* deletes the leaf.
ParamChanged(p, path, value) ==
    LET category == IF path[1] \in DOMAIN p THEN p[path[1]] ELSE EmptyObject
        leaf     == IF value = <<>> THEN DeleteKey(category, path[2])
                    ELSE SetKey(category, path[2], value)
    IN  SetKey(p, path[1], leaf)

EventIds(events) == { events[i].id : i \in DOMAIN events }

\* events.find(ev => ev.id === id): the first event with that id
FindEvent(events, id) ==
    events[CHOOSE i \in DOMAIN events :
              events[i].id = id /\ \A j \in DOMAIN events : events[j].id = id => i <= j]

\* Ids come from Date.now() and Math.random() (`subj_${Date.now()}`,
\* `evt_${Date.now()}_${Math.random()}`): a new id differs from every id made
\* before. Ids are only compared, so they are numbered in the order they are made.
FreshId == nextId

Init ==
    /\ promptType = "Image"
    /\ subjects = << NewSubject(1, 1) >>
    /\ params = EmptyObject
    /\ timeline = <<>>
    /\ animatedParams = {}
    /\ scrub = EmptyObject
    /\ draggingEvent = None
    /\ lastUpdate = None
    /\ alerted = None
    /\ nextId = 2
    /\ allEvents = <<>>
    /\ listenerEvents = <<>>
    /\ result = None

\* As SetPromptType, with the timeline left as it was.
SetPromptType_TimelineKept(type) ==
    /\ type # promptType
    /\ promptType' = type
    /\ draggingEvent' = IF type = "Image" THEN None ELSE draggingEvent
    /\ scrub' = Mounted(scrub, type, subjects, animatedParams)
    /\ lastUpdate' = None
    /\ alerted' = None
    /\ UNCHANGED <<subjects, params, timeline, animatedParams, nextId, listenerEvents, layoutVars>>

\* onClick={() => setPromptType(type)} and the effect on promptType.
\* InteractiveTimeline is rendered only when the type is not Image.
SetPromptType(type) ==
    /\ type # promptType
    /\ promptType' = type
    /\ timeline' = IF type = "Image" THEN <<>> ELSE timeline
    /\ draggingEvent' = IF type = "Image" THEN None ELSE draggingEvent
    /\ scrub' = Mounted(scrub, type, subjects, animatedParams)
    /\ lastUpdate' = None
    /\ alerted' = None
    /\ UNCHANGED <<subjects, params, animatedParams, nextId, listenerEvents, layoutVars>>

\* As resetState, with the timeline left as it was.
resetState_TimelineKept ==
    /\ subjects' = << NewSubject(FreshId, 1) >>
    /\ params' = EmptyObject
    /\ animatedParams' = {}
    /\ scrub' = EmptyObject
    /\ nextId <= MaxIds
    /\ nextId' = nextId + 1
    /\ lastUpdate' = None
    /\ alerted' = None
    /\ UNCHANGED <<promptType, timeline, draggingEvent, listenerEvents, layoutVars>>

\* As resetState, with the parameter tree left as it was.
resetState_ParamsKept ==
    /\ subjects' = << NewSubject(FreshId, 1) >>
    /\ timeline' = <<>>
    /\ animatedParams' = {}
    /\ scrub' = EmptyObject
    /\ nextId <= MaxIds
    /\ nextId' = nextId + 1
    /\ lastUpdate' = None
    /\ alerted' = None
    /\ UNCHANGED <<promptType, params, draggingEvent, listenerEvents, layoutVars>>

\* Reset All
resetState ==
    /\ subjects' = << NewSubject(FreshId, 1) >>
    /\ params' = EmptyObject
    /\ timeline' = <<>>
    /\ animatedParams' = {}
    /\ scrub' = EmptyObject
    /\ nextId <= MaxIds
    /\ nextId' = nextId + 1
    /\ lastUpdate' = None
    /\ alerted' = None
    /\ UNCHANGED <<promptType, draggingEvent, listenerEvents, layoutVars>>

\* + Add Subject
AddSubject ==
    /\ Len(subjects) < MaxSubjects
    /\ subjects' = Append(subjects, NewSubject(FreshId, Len(subjects) + 1))
    /\ scrub' = Mounted(scrub, promptType, subjects', animatedParams)
    /\ nextId <= MaxIds
    /\ nextId' = nextId + 1
    /\ lastUpdate' = None
    /\ alerted' = None
    /\ UNCHANGED <<promptType, params, timeline, animatedParams, draggingEvent, listenerEvents, layoutVars>>

\* As removeSubject, with the timeline left as it was.
removeSubject_TimelineKept(id) ==
    /\ Len(subjects) > 1
    /\ id \in SubjectIds(subjects)
    /\ subjects' = SelectSeqBy(subjects, { x \in Range(subjects) : x.id # id })
    /\ scrub' = Mounted(scrub, promptType, subjects', animatedParams)
    /\ lastUpdate' = None
    /\ alerted' = None
    /\ UNCHANGED <<promptType, params, timeline, animatedParams, draggingEvent, nextId, listenerEvents, layoutVars>>

\* The remove button of a subject, rendered when subjects.length > 1.
removeSubject(id) ==
    /\ Len(subjects) > 1
    /\ id \in SubjectIds(subjects)
    /\ subjects' = SelectSeqBy(subjects, { x \in Range(subjects) : x.id # id })
    /\ timeline' = SelectSeqBy(timeline, { e \in Range(timeline) : e.subjectId # id })
    /\ scrub' = Mounted(scrub, promptType, subjects', animatedParams)
    /\ lastUpdate' = None
    /\ alerted' = None
    /\ UNCHANGED <<promptType, params, animatedParams, draggingEvent, nextId, listenerEvents, layoutVars>>

\* handleChange of a subject field
updateSubject(id, key, value) ==
    /\ id \in SubjectIds(subjects)
    /\ subjects' = [i \in DOMAIN subjects |->
                       IF subjects[i].id = id
                       THEN [subjects[i] EXCEPT !.attrs = SetKey(@, key, value)]
                       ELSE subjects[i]]
    /\ lastUpdate' = None
    /\ alerted' = None
    /\ UNCHANGED <<promptType, params, timeline, animatedParams, scrub,
                   draggingEvent, nextId, listenerEvents, layoutVars>>

\* handleChange of a field of the parameter tree
handleParamChange(path, value) ==
    /\ params' = ParamChanged(params, path, value)
    /\ lastUpdate' = None
    /\ alerted' = None
    /\ UNCHANGED <<promptType, subjects, timeline, animatedParams, scrub,
                   draggingEvent, nextId, listenerEvents, layoutVars>>

\* handleReset of a field: the reset button is rendered with hasValue, the
\* values of the fields are lists, so handleChange gets [].
ResetField(key) ==
    /\ key \in RenderedKeys(subjects)
    /\ CurrentValue(subjects, params, key) # <<>>
    /\ IF key.subj # 0
       THEN updateSubject(key.subj, key.path[2], <<>>)
       ELSE handleParamChange(key.path, <<>>)

\* The animate button of a field, rendered when the field is animatable.
ToggleAnimated(key) ==
    /\ key \in RenderedKeys(subjects)
    /\ isAnimatable(promptType, key.path[1])
    /\ animatedParams' = IF key \in animatedParams THEN animatedParams \ {key}
                         ELSE animatedParams \cup {key}
    /\ scrub' = Mounted(scrub, promptType, subjects, animatedParams')
    /\ lastUpdate' = None
    /\ alerted' = None
    /\ UNCHANGED <<promptType, subjects, params, timeline, draggingEvent, nextId, listenerEvents, layoutVars>>

\* ---------------------------------------------------------------------------
\* TimeScrubber and the creation of events
\* ---------------------------------------------------------------------------

\* The cells of a scrubber, Array.from({ length: duration }), that the pointer visits.
Cells == { c \in VisitedCells : 0 <= c /\ c < duration }

ScrubMouseDown(key, sec) ==
    /\ key \in DOMAIN scrub
    /\ sec \in Cells
    /\ scrub' = [scrub EXCEPT ![key] = [start |-> sec, end |-> sec, isSelecting |-> TRUE]]
    /\ lastUpdate' = None
    /\ alerted' = None
    /\ UNCHANGED <<promptType, subjects, params, timeline, animatedParams,
                   draggingEvent, nextId, listenerEvents, layoutVars>>

ScrubMouseEnter(key, sec) ==
    /\ key \in DOMAIN scrub
    /\ sec \in Cells
    /\ scrub' = IF scrub[key].isSelecting /\ scrub[key].start # -1
                THEN [scrub EXCEPT ![key].end = sec]
                ELSE scrub
    /\ lastUpdate' = None
    /\ alerted' = None
    /\ UNCHANGED <<promptType, subjects, params, timeline, animatedParams,
                   draggingEvent, nextId, listenerEvents, layoutVars>>

\* onMouseUp and onMouseLeave of the bar
ScrubMouseUp(key) ==
    /\ key \in DOMAIN scrub
    /\ scrub' = [scrub EXCEPT ![key].isSelecting = FALSE]
    /\ lastUpdate' = None
    /\ alerted' = None
    /\ UNCHANGED <<promptType, subjects, params, timeline, animatedParams,
                   draggingEvent, nextId, listenerEvents, layoutVars>>

\* The Reset button of a scrubber, rendered with a selection.
ScrubReset(key) ==
    /\ key \in DOMAIN scrub
    /\ scrub[key].start # -1 /\ scrub[key].end # -1
    /\ scrub' = [scrub EXCEPT ![key] = ScrubIdle]
    /\ lastUpdate' = None
    /\ alerted' = None
    /\ UNCHANGED <<promptType, subjects, params, timeline, animatedParams,
                   draggingEvent, nextId, listenerEvents, layoutVars>>

\* The event addTimelineEvent builds. paramLabel is the sub-category (the keys
\* of the fields here have no capital, so the label is the key itself);
\* paramName is <<subject name, label>> or <<label>>.
NewEvent(id, key, start, end, value) ==
    [id         |-> id,
     paramPath  |-> key.path,
     paramName  |-> IF key.subj # 0
                    THEN <<FindSubject(subjects, key.subj).name, key.path[2]>>
                    ELSE <<key.path[2]>>,
     paramLabel |-> key.path[2],
     subjectId  |-> key.subj,
     start      |-> start,
     end        |-> end,
     value      |-> value]

\* As TimelineAfterAdd, with the value list tested and not its first element.
TimelineAfterAdd_ListTested(key, start, end) ==
    LET currentValue == CurrentValue(subjects, params, key)
    IN  IF currentValue # <<>>
        THEN Append(timeline, NewEvent(FreshId, key, start, end, currentValue[1]))
        ELSE timeline

\* handleAddToTimeline and addTimelineEvent: the timeline after the commit of
\* the range start..end for the field key. Nothing is added without a value.
TimelineAfterAdd(key, start, end) ==
    LET currentValue   == CurrentValue(subjects, params, key)
        hasValue       == currentValue # <<>> /\ currentValue[1] # <<>>
    IN  IF hasValue
        THEN Append(timeline, NewEvent(FreshId, key, start, end, currentValue[1]))
        ELSE timeline

\* handleAddToTimeline: the alert for a field without a value to animate,
\* `Please select a value for "${paramLabel}" before adding to timeline.`
AlertAfterAdd(key) ==
    LET currentValue == CurrentValue(subjects, params, key)
        hasValue     == currentValue # <<>> /\ currentValue[1] # <<>>
    IN  IF hasValue THEN None ELSE [paramLabel |-> key.path[2]]

\* As FinalEnd, without the increment.
FinalEnd_NoIncrement(start, end) == Max(start, end)

\* finalStart and finalEnd of handleAddClick
FinalStart(start, end) == Min(start, end)
FinalEnd(start, end) == Max(start, end) + 1

\* Add to Timeline: handleAddClick, onAdd, handleReset
ScrubAddClick(key) ==
    /\ key \in DOMAIN scrub
    /\ scrub[key].start # -1 /\ scrub[key].end # -1
    /\ Len(timeline) < MaxEvents
    /\ timeline' = TimelineAfterAdd(key, FinalStart(scrub[key].start, scrub[key].end),
                                    FinalEnd(scrub[key].start, scrub[key].end))
    /\ scrub' = [scrub EXCEPT ![key] = ScrubIdle]
    /\ nextId <= MaxIds
    /\ nextId' = IF timeline' # timeline THEN nextId + 1 ELSE nextId
    /\ lastUpdate' = None
    /\ alerted' = AlertAfterAdd(key)
    /\ UNCHANGED <<promptType, subjects, params, animatedParams, draggingEvent, listenerEvents, layoutVars>>

\* ---------------------------------------------------------------------------
\* InteractiveTimeline: removal and drag
\* ---------------------------------------------------------------------------

\* The remove button of an event
removeTimelineEvent(id) ==
    /\ promptType # "Image"
    /\ id \in EventIds(timeline)
    /\ timeline' = SelectSeqBy(timeline, { e \in Range(timeline) : e.id # id })
    /\ lastUpdate' = None
    /\ alerted' = None
    /\ UNCHANGED <<promptType, subjects, params, animatedParams, scrub,
                   draggingEvent, nextId, listenerEvents, layoutVars>>

\* As updateTimelineEvent, with every event replaced by the updated one.
updateTimelineEvent_AllReplaced(t, updatedEvent) ==
    [i \in DOMAIN t |-> updatedEvent]

\* As updateTimelineEvent, with the updated event added when no event has its id.
updateTimelineEvent_Upsert(t, updatedEvent) ==
    IF updatedEvent.id \in { t[i].id : i \in DOMAIN t }
    THEN [i \in DOMAIN t |-> IF t[i].id = updatedEvent.id THEN updatedEvent ELSE t[i]]
    ELSE Append(t, updatedEvent)

\* setTimeline(t => t.map(e => e.id === updatedEvent.id ? updatedEvent : e))
updateTimelineEvent(t, updatedEvent) ==
    [i \in DOMAIN t |-> IF t[i].id = updatedEvent.id THEN updatedEvent ELSE t[i]]

\* Fractions <<numerator, denominator>> with a positive denominator.
Times(q, n) == <<q[1] * n, q[2]>>
Minus(q, r) == <<q[1] * r[2] - r[1] * q[2], q[2] * r[2]>>
LessEq(q, r) == q[1] * r[2] <= r[1] * q[2]

\* Fractions are kept in lowest terms, so that equal numbers are equal values.
RECURSIVE Gcd(_, _)
Gcd(a, b) == IF b = 0 THEN a ELSE Gcd(b, a % b)
Abs(a) == IF a < 0 THEN 0 - a ELSE a
Lowest(q) ==
    LET g == Gcd(Abs(q[1]), q[2])
    IN  <<q[1] \div g, q[2] \div g>>

\* onMouseDown of an event, the pointer at the fraction grab of its width:
\* startOffset = (mouseX / eventRect.width) * (event.end - event.start)
handleMouseDown(id, grab) ==
    /\ promptType # "Image"
    /\ id \in EventIds(timeline)
    /\ LET event == FindEvent(timeline, id)
       IN  draggingEvent' = [id |-> id,
                             startOffset |-> Lowest(Times(grab, event.end - event.start))]
    /\ lastUpdate' = None
    /\ alerted' = None
    /\ UNCHANGED <<promptType, subjects, params, timeline, animatedParams, scrub, nextId, listenerEvents, layoutVars>>

\* Math.round of a fraction: the nearest integer, halves upwards.
Round(q) == (2 * q[1] + q[2]) \div (2 * q[2])

\* Math.max(0, Math.min(1, mouseX / timelineRect.width))
Percent(pointer) ==
    IF LessEq(pointer, <<0, 1>>) THEN <<0, 1>>
    ELSE IF LessEq(<<1, 1>>, pointer) THEN <<1, 1>> ELSE pointer

\* Math.round((percent * duration) - draggingEvent.startOffset)
NewStart(percent, d, startOffset) == Round(Minus(Times(percent, d), startOffset))

\* As ClampedStart, with the lower bound applied before the upper one.
ClampedStart_UpperLast(newStart, d, eventDuration) == Min(Max(0, newStart), d - eventDuration)

\* As ClampedStart, without the upper bound.
ClampedStart_NoUpper(newStart, d, eventDuration) == Max(0, newStart)

\* Math.max(0, Math.min(newStart, duration - eventDuration))
ClampedStart(newStart, d, eventDuration) == Max(0, Min(newStart, d - eventDuration))

\* As Dragged, with the end left where it was.
Dragged_EndKept(currentEvent, pointer, d, startOffset) ==
    LET eventDuration == currentEvent.end - currentEvent.start
        newStart      == NewStart(Percent(pointer), d, startOffset)
        clampedStart  == ClampedStart(newStart, d, eventDuration)
    IN  [currentEvent EXCEPT !.start = clampedStart]

\* The event handleMouseMove computes for currentEvent
Dragged(currentEvent, pointer, d, startOffset) ==
    LET eventDuration == currentEvent.end - currentEvent.start
        newStart      == NewStart(Percent(pointer), d, startOffset)
        clampedStart  == ClampedStart(newStart, d, eventDuration)
    IN  [currentEvent EXCEPT !.start = clampedStart, !.end = clampedStart + eventDuration]

\* As handleMouseMove, with onEventUpdate called for an unchanged start too.
handleMouseMove_AlwaysEmits(pointer) ==
    /\ promptType # "Image"
    /\ IF draggingEvent = None \/ draggingEvent.id \notin EventIds(timeline)
       THEN /\ lastUpdate' = None
            /\ UNCHANGED timeline
       ELSE LET currentEvent == FindEvent(timeline, draggingEvent.id)
                updatedEvent == Dragged(currentEvent, pointer, duration, draggingEvent.startOffset)
            IN  /\ timeline' = updateTimelineEvent(timeline, updatedEvent)
                /\ lastUpdate' = [event |-> updatedEvent, of |-> currentEvent,
                                  duration |-> duration]
    /\ alerted' = None
    /\ UNCHANGED <<promptType, subjects, params, animatedParams, scrub,
                   draggingEvent, nextId, listenerEvents, layoutVars>>

\* mousemove on the window
handleMouseMove(pointer) ==
    /\ promptType # "Image"
    /\ IF draggingEvent = None \/ draggingEvent.id \notin EventIds(timeline)
       THEN /\ lastUpdate' = None
            /\ UNCHANGED timeline
       ELSE LET currentEvent == FindEvent(timeline, draggingEvent.id)
                updatedEvent == Dragged(currentEvent, pointer, duration, draggingEvent.startOffset)
            IN  IF updatedEvent.start # currentEvent.start
                THEN /\ timeline' = updateTimelineEvent(timeline, updatedEvent)
                     /\ lastUpdate' = [event |-> updatedEvent, of |-> currentEvent,
                                       duration |-> duration]
                ELSE /\ lastUpdate' = None
                     /\ UNCHANGED timeline
    /\ alerted' = None
    /\ UNCHANGED <<promptType, subjects, params, animatedParams, scrub,
                   draggingEvent, nextId, listenerEvents, layoutVars>>

\* The effect of InteractiveTimeline has run after a render: the listeners on
\* the window are the ones that closed over the events of that render.
effectSubscribe ==
    /\ promptType # "Image"
    /\ listenerEvents # timeline
    /\ listenerEvents' = timeline
    /\ lastUpdate' = None
    /\ alerted' = None
    /\ UNCHANGED <<promptType, subjects, params, timeline, animatedParams, scrub,
                   draggingEvent, nextId, layoutVars>>

\* mousemove on the window before the effect has subscribed the listeners of
\* the last render: currentEvent is found in the events the listeners closed
\* over, and the updater of setTimeline maps the timeline of now.
handleMouseMoveStale(pointer) ==
    /\ promptType # "Image"
    /\ IF draggingEvent = None \/ draggingEvent.id \notin EventIds(listenerEvents)
       THEN /\ lastUpdate' = None
            /\ UNCHANGED timeline
       ELSE LET currentEvent == FindEvent(listenerEvents, draggingEvent.id)
                updatedEvent == Dragged(currentEvent, pointer, duration, draggingEvent.startOffset)
            IN  IF updatedEvent.start # currentEvent.start
                THEN /\ timeline' = updateTimelineEvent(timeline, updatedEvent)
                     /\ lastUpdate' = [event |-> updatedEvent, of |-> currentEvent,
                                       duration |-> duration]
                ELSE /\ lastUpdate' = None
                     /\ UNCHANGED timeline
    /\ alerted' = None
    /\ UNCHANGED <<promptType, subjects, params, animatedParams, scrub,
                   draggingEvent, nextId, listenerEvents, layoutVars>>

\* As handleMouseUp, with the drag left as it was.
handleMouseUp_DragKept ==
    /\ promptType # "Image"
    /\ lastUpdate' = None
    /\ alerted' = None
    /\ UNCHANGED <<promptType, subjects, params, timeline, animatedParams, scrub,
                   draggingEvent, nextId, listenerEvents, layoutVars>>

\* mouseup on the window
handleMouseUp ==
    /\ promptType # "Image"
    /\ draggingEvent' = None
    /\ lastUpdate' = None
    /\ alerted' = None
    /\ UNCHANGED <<promptType, subjects, params, timeline, animatedParams, scrub, nextId, listenerEvents, layoutVars>>

\* ---------------------------------------------------------------------------
\* The output effect: the "has content" flags and the text projection
\* ---------------------------------------------------------------------------

\* Array.prototype.join
RECURSIVE Join(_, _)
Join(list, separator) ==
    IF list = <<>> THEN <<>>
    ELSE IF Len(list) = 1 THEN list[1]
         ELSE list[1] \o separator \o Join(Tail(list), separator)

\* As formatWildcard, with the alternatives of a list joined without braces.
formatWildcard_NoBraces(val) ==
    IF val = <<>> THEN <<>>
    ELSE IF Len(val) = 1 THEN val[1]
         ELSE Join(val, <<"|">>)

\* formatWildcard for a list of strings; <<>> is the missing value and the
\* empty list, which both give ''.
formatWildcard(val) ==
    IF val = <<>> THEN <<>>
    ELSE IF Len(val) = 1 THEN val[1]
         ELSE <<"{">> \o Join(val, <<"|">>) \o <<"}">>

\* Object.keys(s).length > 2: the keys of a subject are id, name and its attributes.
HasAttributes(s) == Cardinality(DOMAIN s.attrs) + 2 > 2

hasSubjects(subs) == \E i \in DOMAIN subs : HasAttributes(subs[i])

hasParams(p) == \E category \in DOMAIN p : DOMAIN p[category] # {}

hasTimeline(t) == Len(t) > 0

\* The lines `  - key: formatWildcard(value)` of the entries of an object whose
\* formatted value is not ''. The order of the keys of an object is not modelled:
\* the lines of one section are a set.
ValueLines(obj) ==
    { [key |-> k, text |-> formatWildcard(obj[k])] :
        k \in { x \in DOMAIN obj : formatWildcard(obj[x]) # <<>> } }

\* buildSegment: the section of a category, nothing without a line.
buildSegment(categoryName, subParams) ==
    IF ValueLines(subParams) = {} THEN <<>>
    ELSE << [kind |-> "category", title |-> categoryName, lines |-> ValueLines(subParams)] >>

\* The section `Subject "name":` of a subject, nothing without a line.
SubjectSection(s) ==
    IF ValueLines(s.attrs) = {} THEN <<>>
    ELSE << [kind |-> "subject", title |-> s.name, lines |-> ValueLines(s.attrs)] >>

RECURSIVE Concat(_)
Concat(lists) == IF lists = <<>> THEN <<>> ELSE Head(lists) \o Concat(Tail(lists))

promptOrder == <<"directorNotes", "scene", "composition", "camera", "style", "audio", "technical">>

\* The sections of the categories in promptOrder; technical is left out when
\* it has negativeKeywords (a stored value is never '', so it is truthy).
CategorySections(p) ==
    Concat([i \in DOMAIN promptOrder |->
               LET category == promptOrder[i]
               IN  IF category \notin DOMAIN p \/ DOMAIN p[category] = {} THEN <<>>
                   ELSE IF category = "technical" /\ "negativeKeywords" \in DOMAIN p[category]
                        THEN <<>>
                        ELSE buildSegment(category, p[category])])

\* The line of an event: `(start s-end s) prefix: value`
EventLine(subs, event) ==
    [start  |-> event.start,
     end    |-> event.end,
     prefix |-> IF event.subjectId # 0 /\ event.subjectId \in SubjectIds(subs)
                THEN <<"subject", FindSubject(subs, event.subjectId).name, event.paramLabel>>
                ELSE event.paramPath,
     value  |-> event.value]

TimelineSection(subs, t) ==
    IF hasTimeline(t)
    THEN << [kind |-> "timeline",
             lines |-> [i \in DOMAIN t |-> EventLine(subs, SortByStart(t)[i])]] >>
    ELSE <<>>

\* params.rules?.negativeKeywords?.length > 0
NegativeSection(p) ==
    IF "rules" \in DOMAIN p /\ "negativeKeywords" \in DOMAIN p["rules"]
       /\ Len(p["rules"]["negativeKeywords"]) > 0
    THEN << [kind |-> "negative", text |-> Join(p["rules"]["negativeKeywords"], <<",", " ">>)] >>
    ELSE <<>>

\* As TextSections, with the timeline written before the categories.
TextSections_TimelineFirst(subs, p, t) ==
    IF ~hasSubjects(subs) /\ ~hasParams(p) /\ ~hasTimeline(t) THEN <<>>
    ELSE Concat([i \in DOMAIN subs |-> SubjectSection(subs[i])])
         \o TimelineSection(subs, t) \o CategorySections(p) \o NegativeSection(p)

\* The sections of the text handed to updateOutputs, after its first line
\* `Create ... with the following parameters:`. The empty prompt is the text
\* '' and has none.
TextSections(subs, p, t) ==
    IF ~hasSubjects(subs) /\ ~hasParams(p) /\ ~hasTimeline(t) THEN <<>>
    ELSE Concat([i \in DOMAIN subs |-> SubjectSection(subs[i])])
         \o CategorySections(p) \o TimelineSection(subs, t) \o NegativeSection(p)

\* ---------------------------------------------------------------------------
\* Specifications
\* ---------------------------------------------------------------------------

\* The runs of Spec edit the global fields: the animatable field, whose
\* scrubber creates the events, and the duration setting. The subject list
\* stays as resetState leaves it.
GlobalKeys == { ParamKey(0, ActionPath), ParamKey(0, DurationPath) }

Next ==
    \/ \E type \in PromptTypes : SetPromptType(type)
    \/ resetState
    \/ \E value \in FieldValues : handleParamChange(ActionPath, value)
    \/ \E value \in DurationValues : handleParamChange(DurationPath, value)
    \/ \E key \in GlobalKeys : ToggleAnimated(key)
    \/ \E key \in GlobalKeys, sec \in VisitedCells : ScrubMouseDown(key, sec)
    \/ \E key \in GlobalKeys, sec \in VisitedCells : ScrubMouseEnter(key, sec)
    \/ \E key \in GlobalKeys : ScrubMouseUp(key)
    \/ \E key \in GlobalKeys : ScrubReset(key)
    \/ \E key \in GlobalKeys : ScrubAddClick(key)
    \/ \E id \in EventIds(timeline) : removeTimelineEvent(id)
    \/ \E id \in EventIds(timeline), grab \in GrabPositions : handleMouseDown(id, grab)
    \/ \E pointer \in PointerPositions : handleMouseMove(pointer)
    \/ handleMouseUp

Spec == Init /\ [][Next]_vars

\* The runs of SpecSubjects edit the subject list and the fields of the
\* subjects, whose scrubbers create the events of the subjects.
SubjectIdsOfRuns == 1..MaxIds

SubjectKeysOfRuns ==
    { ParamKey(id, <<"subjects", k>>) : id \in SubjectIdsOfRuns, k \in SubjectKeys }

NextSubjects ==
    \/ \E type \in PromptTypes : SetPromptType(type)
    \/ resetState
    \/ AddSubject
    \/ \E id \in SubjectIdsOfRuns : removeSubject(id)
    \/ \E id \in SubjectIdsOfRuns, key \in SubjectKeys, value \in FieldValues :
           updateSubject(id, key, value)
    \/ \E key \in SubjectKeysOfRuns : ResetField(key)
    \/ \E key \in SubjectKeysOfRuns : ToggleAnimated(key)
    \/ \E key \in SubjectKeysOfRuns, sec \in VisitedCells : ScrubMouseDown(key, sec)
    \/ \E key \in SubjectKeysOfRuns, sec \in VisitedCells : ScrubMouseEnter(key, sec)
    \/ \E key \in SubjectKeysOfRuns : ScrubMouseUp(key)
    \/ \E key \in SubjectKeysOfRuns : ScrubReset(key)
    \/ \E key \in SubjectKeysOfRuns : ScrubAddClick(key)
    \/ \E id \in EventIds(timeline) : removeTimelineEvent(id)

SpecSubjects == Init /\ [][NextSubjects]_vars

\* Calls of calculateLayout: the studio is left in its initial state.
InitLayout ==
    /\ promptType = "Image"
    /\ subjects = << NewSubject(1, 1) >>
    /\ params = EmptyObject
    /\ timeline = <<>>
    /\ animatedParams = {}
    /\ scrub = EmptyObject
    /\ draggingEvent = None
    /\ lastUpdate = None
    /\ alerted = None
    /\ nextId = 2
    /\ \E n \in 0..LayoutMaxEvents : \E f \in [1..n -> LayoutIntervals] :
          allEvents = EventList(n, f)
    /\ listenerEvents = <<>>
    /\ result = None

CallLayout ==
    /\ result = None
    /\ result' = calculateLayout(allEvents)
    /\ UNCHANGED <<allEvents, appVars>>

NextLayout == CallLayout

SpecLayout == InitLayout /\ [][NextLayout]_vars

\* The runs of SpecCommit fill the field scene.action from a chip input and
\* from a textarea, reset it, and commit ranges of its scrubber. They start
\* with the Video type chosen and the field's scrubber opened.
ActionKey == ParamKey(0, ActionPath)

InitCommit ==
    /\ promptType = "Video"
    /\ subjects = << NewSubject(1, 1) >>
    /\ params = EmptyObject
    /\ timeline = <<>>
    /\ animatedParams = {ActionKey}
    /\ scrub = Mounted(EmptyObject, promptType, subjects, animatedParams)
    /\ draggingEvent = None
    /\ lastUpdate = None
    /\ alerted = None
    /\ nextId = 2
    /\ allEvents = <<>>
    /\ listenerEvents = <<>>
    /\ result = None

NextCommit ==
    \/ \E value \in FieldValues : handleParamChange(ActionPath, value)
    \/ \E text \in TextareaTexts : handleParamChange(ActionPath, TextareaValue(text))
    \/ ResetField(ActionKey)
    \/ \E sec \in VisitedCells : ScrubMouseDown(ActionKey, sec)
    \/ \E sec \in VisitedCells : ScrubMouseEnter(ActionKey, sec)
    \/ ScrubMouseUp(ActionKey)
    \/ ScrubReset(ActionKey)
    \/ ScrubAddClick(ActionKey)
    \/ \E id \in EventIds(timeline) : removeTimelineEvent(id)

SpecCommit == InitCommit /\ [][NextCommit]_vars

\* The runs of SpecRemove remove subjects and events from a timeline that
\* holds events of the subjects' fields and of the field scene.action, in any
\* order of commit.
RemoveMaxEvents == 3   \* most events of that timeline

\* The field an event of owner belongs to; owner 0 is no subject.
OwnerKey(owner) ==
    IF owner = 0 THEN ActionKey ELSE ParamKey(owner, <<"subjects", "pose">>)

InitRemove ==
    /\ promptType = "Video"
    /\ \E n \in 1..MaxSubjects :
          /\ subjects = [i \in 1..n |-> [NewSubject(i, i) EXCEPT !.attrs = SetKey(@, "pose", << <<"r", "u", "n">> >>)]]
          /\ \E len \in 0..RemoveMaxEvents : \E owner \in [1..len -> 0..n] :
                /\ timeline = [i \in 1..len |->
                                  NewEvent(n + i, OwnerKey(owner[i]), 0, 1, <<"r", "u", "n">>)]
                /\ nextId = n + len + 1
    /\ params = ParamChanged(EmptyObject, ActionPath, << <<"r", "u", "n">> >>)
    /\ animatedParams = {}
    /\ scrub = EmptyObject
    /\ draggingEvent = None
    /\ lastUpdate = None
    /\ alerted = None
    /\ allEvents = <<>>
    /\ listenerEvents = <<>>
    /\ result = None

NextRemove ==
    \/ \E id \in SubjectIdsOfRuns : removeSubject(id)
    \/ \E id \in EventIds(timeline) : removeTimelineEvent(id)

SpecRemove == InitRemove /\ [][NextRemove]_vars

\* The runs of SpecParams edit the parameter tree: three fields in two
\* categories get the values of a chip input and of a textarea, the empty
\* list included, and are reset.
ParamPaths == { ActionPath, DurationPath, NegativePath }

ParamValues ==
    FieldValues \cup DurationValues \cup { TextareaValue(text) : text \in TextareaTexts }

NextParams ==
    \/ \E path \in ParamPaths, value \in ParamValues : handleParamChange(path, value)
    \/ \E path \in ParamPaths : ResetField(ParamKey(0, path))

SpecParams == Init /\ [][NextParams]_vars

\* The runs of SpecOutput fill and reset the fields the text projection
\* reads, for a subject list and a timeline with events of the field
\* scene.action and of the subjects that have a pose, committed in any order
\* at the cells visited.
OutputMaxEvents == 2   \* most events of that timeline

OutputPaths == { ActionPath, DurationPath, RulesPath }

InitOutput ==
    /\ promptType = "Video"
    /\ \E n \in 1..MaxSubjects : \E posed \in SUBSET (1..n) :
          /\ subjects = [i \in 1..n |->
                            IF i \in posed
                            THEN [NewSubject(i, i) EXCEPT !.attrs = SetKey(@, "pose", << <<"r", "u", "n">> >>)]
                            ELSE NewSubject(i, i)]
          /\ \E len \in 0..OutputMaxEvents :
                \E owner \in [1..len -> {0} \cup posed], start \in [1..len -> VisitedCells] :
                    /\ timeline = [i \in 1..len |->
                                      NewEvent(n + i, OwnerKey(owner[i]), start[i], start[i] + 1,
                                               <<"r", "u", "n">>)]
                    /\ nextId = n + len + 1
    /\ params = EmptyObject
    /\ animatedParams = {}
    /\ scrub = EmptyObject
    /\ draggingEvent = None
    /\ lastUpdate = None
    /\ alerted = None
    /\ allEvents = <<>>
    /\ listenerEvents = <<>>
    /\ result = None

NextOutput ==
    \/ \E path \in OutputPaths, value \in FieldValues : handleParamChange(path, value)
    \/ \E id \in SubjectIdsOfRuns, key \in SubjectKeys, value \in FieldValues :
           updateSubject(id, key, value)
    \/ \E path \in OutputPaths : ResetField(ParamKey(0, path))
    \/ \E key \in SubjectKeysOfRuns : ResetField(key)

SpecOutput == InitOutput /\ [][NextOutput]_vars

\* The runs of SpecWildcard give the pose of the first subject and the field
\* scene.action every list of at most WildcardMaxLen strings, the empty
\* string among them, as the chips and the textarea of a field do.
WildcardMaxLen == 3   \* longest list of values of a field

WildcardItems == { <<>>, <<"a">>, <<"b", "c">> }

WildcardLists == UNION { [1..n -> WildcardItems] : n \in 0..WildcardMaxLen }

NextWildcard ==
    \/ \E id \in SubjectIds(subjects), key \in SubjectKeys, value \in WildcardLists :
           updateSubject(id, key, value)
    \/ \E value \in WildcardLists : handleParamChange(ActionPath, value)

SpecWildcard == Init /\ [][NextWildcard]_vars

\* The runs of SpecDrag are the drags of one event of the field scene.action
\* on a timeline of a given duration: the event starts anywhere a scrubber
\* commit or an earlier drag can have put it.
DragMaxStart == 7      \* latest start of the event
DragMaxLength == 3     \* longest event

\* The duration settings of the drags.
DragDurationValues == { << <<"1", "0", "s">> >>, << <<"2", "s">> >> }

\* mouseX / timelineRect.width in tenths, from left of the timeline to right of it.
DragPointers == { <<n, 10>> : n \in (0 - 1)..11 }

InitDrag ==
    /\ promptType = "Video"
    /\ subjects = << NewSubject(1, 1) >>
    /\ \E value \in DragDurationValues, field \in FieldValues :
          params = ParamChanged(ParamChanged(EmptyObject, DurationPath, value),
                                ActionPath, field)
    /\ \E start \in 0..DragMaxStart, length \in 1..DragMaxLength :
          timeline = << NewEvent(2, ParamKey(0, ActionPath), start, start + length,
                                 CurrentValue(subjects, params, ParamKey(0, ActionPath))[1]) >>
    /\ animatedParams = {}
    /\ scrub = EmptyObject
    /\ draggingEvent = None
    /\ lastUpdate = None
    /\ alerted = None
    /\ nextId = 3
    /\ allEvents = <<>>
    /\ listenerEvents = <<>>
    /\ result = None

NextDrag ==
    \/ \E id \in EventIds(timeline), grab \in GrabPositions : handleMouseDown(id, grab)
    \/ \E pointer \in DragPointers : handleMouseMove(pointer)
    \/ handleMouseUp

SpecDrag == InitDrag /\ [][NextDrag]_vars

\* The runs of SpecReflow drag and remove the events of a timeline of two
\* events, one of the field scene.action and one of the pose of the subject,
\* on a timeline of 4 seconds. A pointer move is handled by the listeners of
\* the last render or by those of an earlier one.
ReflowMaxStart == 2    \* latest start of an event at the beginning

ReflowDurationValue == << <<"4", "s">> >>

\* mouseX / timelineRect.width in quarters.
ReflowPointers == { <<n, 4>> : n \in 0..4 }

InitReflow ==
    /\ promptType = "Video"
    /\ subjects = << [NewSubject(1, 1) EXCEPT !.attrs = SetKey(@, "pose", << <<"r", "u", "n">> >>)] >>
    /\ \E field \in FieldValues :
          params = ParamChanged(ParamChanged(EmptyObject, DurationPath, ReflowDurationValue),
                                ActionPath, field)
    /\ \E first \in 0..ReflowMaxStart, second \in 0..ReflowMaxStart :
          timeline = << NewEvent(2, OwnerKey(0), first, first + 1, <<"r", "u", "n">>),
                        NewEvent(3, OwnerKey(1), second, second + 2, <<"r", "u", "n">>) >>
    /\ listenerEvents = timeline
    /\ animatedParams = {}
    /\ scrub = EmptyObject
    /\ draggingEvent = None
    /\ lastUpdate = None
    /\ alerted = None
    /\ nextId = 4
    /\ allEvents = <<>>
    /\ result = None

NextReflow ==
    \/ \E id \in EventIds(timeline), grab \in GrabPositions : handleMouseDown(id, grab)
    \/ \E pointer \in ReflowPointers : handleMouseMove(pointer)
    \/ \E pointer \in ReflowPointers : handleMouseMoveStale(pointer)
    \/ handleMouseUp
    \/ \E id \in EventIds(timeline) : removeTimelineEvent(id)
    \/ effectSubscribe

SpecReflow == InitReflow /\ [][NextReflow]_vars

\* The runs of SpecOwners start in a video studio and add and remove
\* subjects, give them a pose, set the duration, commit events of their pose
\* at the first cell of the scrubber, remove and drag events, and reset the
\* studio.
OwnersPointers == { <<0, 1>>, <<1, 2>> }

InitOwners ==
    /\ promptType = "Video"
    /\ subjects = << NewSubject(1, 1) >>
    /\ params = EmptyObject
    /\ timeline = <<>>
    /\ animatedParams = {}
    /\ scrub = EmptyObject
    /\ draggingEvent = None
    /\ lastUpdate = None
    /\ alerted = None
    /\ nextId = 2
    /\ allEvents = <<>>
    /\ listenerEvents = <<>>
    /\ result = None

NextOwners ==
    \/ resetState
    \/ AddSubject
    \/ \E id \in SubjectIdsOfRuns : removeSubject(id)
    \/ \E id \in SubjectIdsOfRuns, key \in SubjectKeys, value \in FieldValues :
           updateSubject(id, key, value)
    \/ \E value \in DurationValues : handleParamChange(DurationPath, value)
    \/ \E key \in SubjectKeysOfRuns : ToggleAnimated(key)
    \/ \E key \in SubjectKeysOfRuns : ScrubMouseDown(key, 0)
    \/ \E key \in SubjectKeysOfRuns : ScrubAddClick(key)
    \/ \E id \in EventIds(timeline) : removeTimelineEvent(id)
    \/ \E id \in EventIds(timeline) : handleMouseDown(id, <<0, 1>>)
    \/ \E pointer \in OwnersPointers : handleMouseMove(pointer)
    \/ handleMouseUp

SpecOwners == InitOwners /\ [][NextOwners]_vars

\* The runs of SpecImage are the runs of the studio in which the timeline
\* loses events by a change of the prompt type alone: there is no Reset All
\* and no removal of an event.
NextImage ==
    \/ \E type \in PromptTypes : SetPromptType(type)
    \/ \E value \in FieldValues : handleParamChange(ActionPath, value)
    \/ \E value \in DurationValues : handleParamChange(DurationPath, value)
    \/ \E key \in GlobalKeys : ToggleAnimated(key)
    \/ \E key \in GlobalKeys, sec \in VisitedCells : ScrubMouseDown(key, sec)
    \/ \E key \in GlobalKeys, sec \in VisitedCells : ScrubMouseEnter(key, sec)
    \/ \E key \in GlobalKeys : ScrubMouseUp(key)
    \/ \E key \in GlobalKeys : ScrubReset(key)
    \/ \E key \in GlobalKeys : ScrubAddClick(key)
    \/ \E id \in EventIds(timeline), grab \in GrabPositions : handleMouseDown(id, grab)
    \/ \E pointer \in PointerPositions : handleMouseMove(pointer)
    \/ handleMouseUp

SpecImage == Init /\ [][NextImage]_vars

\* ---------------------------------------------------------------------------
\* Properties of calculateLayout (SpecLayout)
\* ---------------------------------------------------------------------------

Returned == result # None

\* The half-open ranges [start, end) of a and b have an instant in common.
Overlap(a, b) == a.start < b.end /\ b.start < a.end

\* The events of the list whose range contains the instant t.
Covering(events, t) == { i \in DOMAIN events : events[i].start <= t /\ t < events[i].end }

\* The most events of the list that contain one common instant. The ends are
\* whole seconds, so the instants 0 .. LayoutMaxTime + 1 decide it.
MaxOverlap(events) ==
    LET counts == { Cardinality(Covering(events, t)) : t \in 0..(LayoutMaxTime + 1) }
    IN  CHOOSE n \in counts : \A m \in counts : m <= n

PairwiseDisjoint(events) ==
    \A i, j \in DOMAIN events : i # j => ~Overlap(events[i], events[j])

HasCommonInstant(events) ==
    \E t \in 0..(LayoutMaxTime + 1) : Covering(events, t) = DOMAIN events

\* The place of the input event with id in the layout.
PlaceOf(layout, id) == CHOOSE k \in DOMAIN layout : layout[k].event.id = id

\* C1: no two events that calculateLayout puts in the same lane have
\* overlapping ranges [start, end).
C1_NoOverlapInLane ==
    Returned =>
        \A i, j \in DOMAIN result.layout :
            (i # j /\ result.layout[i].lane = result.layout[j].lane)
                => ~Overlap(result.layout[i].event, result.layout[j].event)

\* Two events share a lane while a third one, overlapping them, has another.
C1_Witness ==
    /\ Returned
    /\ \E i, j, k \in DOMAIN result.layout :
          /\ i # j /\ result.layout[i].lane = result.layout[j].lane
          /\ result.layout[k].lane # result.layout[i].lane
          /\ Overlap(result.layout[k].event, result.layout[i].event)
          /\ Overlap(result.layout[k].event, result.layout[j].event)

\* C2: totalLanes never exceeds the largest number of events that contain one
\* common instant.
C2_LanesMinimal == Returned => result.totalLanes <= MaxOverlap(allEvents)

\* More events than lanes, and more than one lane: a lane was taken again.
C2_Witness ==
    /\ Returned
    /\ Len(allEvents) >= 3
    /\ result.totalLanes >= 2
    /\ result.totalLanes < Len(allEvents)
    /\ result.totalLanes = MaxOverlap(allEvents)

\* The lanes of the entries placed before place k.
LanesBefore(layout, k) == { layout[m].lane : m \in 1..(k - 1) }

\* The end time recorded for lane l when place k is reached: the end of the
\* event placed last in it.
RecordedEnd(layout, k, l) ==
    LET last == CHOOSE m \in 1..(k - 1) :
                    /\ layout[m].lane = l
                    /\ \A n \in 1..(k - 1) : layout[n].lane = l => n <= m
    IN  layout[last].event.end

\* No entry placed before place k in lane l overlaps the event of place k.
FitsLane(layout, k, l) ==
    \A m \in 1..(k - 1) : layout[m].lane = l => ~Overlap(layout[m].event, layout[k].event)

\* C6: the events are placed in ascending start order, each in the lowest
\* lane in which no event placed before overlaps it; a new lane is opened only
\* when the end recorded for every existing lane is greater than the event's
\* start; of two overlapping events the one with the earlier start gets lane 0
\* and the other lane 1.
C6_GreedyLowestLane ==
    Returned =>
        LET layout == result.layout
        IN  /\ \A i, j \in DOMAIN layout : i < j => layout[i].event.start <= layout[j].event.start
            /\ \A k \in DOMAIN layout :
                  /\ FitsLane(layout, k, layout[k].lane)
                  /\ \A l \in 0..(layout[k].lane - 1) : ~FitsLane(layout, k, l)
                  /\ layout[k].lane \notin LanesBefore(layout, k) =>
                        /\ layout[k].lane = Cardinality(LanesBefore(layout, k))
                        /\ \A l \in LanesBefore(layout, k) :
                              RecordedEnd(layout, k, l) > layout[k].event.start
            /\ (Len(allEvents) = 2 /\ Overlap(allEvents[1], allEvents[2])) =>
                  \A i, j \in {1, 2} :
                      allEvents[i].start < allEvents[j].start =>
                          /\ layout[PlaceOf(layout, i)].lane = 0
                          /\ layout[PlaceOf(layout, j)].lane = 1

\* A list that is not in start order, in which an event goes back to lane 0
\* while lane 1 is free as well.
C6_Witness ==
    /\ Returned
    /\ Len(allEvents) >= 3
    /\ allEvents[1].start > allEvents[2].start
    /\ \E k \in DOMAIN result.layout :
          /\ result.layout[k].lane = 0
          /\ 1 \in LanesBefore(result.layout, k)
          /\ FitsLane(result.layout, k, 1)

\* C7: N events that all contain one common instant get N lanes.
C7_MutualOverlapLanes ==
    (Returned /\ HasCommonInstant(allEvents)) => result.totalLanes = Len(allEvents)

\* Three or more events with different ranges around a common instant.
C7_Witness ==
    /\ Returned
    /\ Len(allEvents) >= 3
    /\ HasCommonInstant(allEvents)
    /\ \E i, j \in DOMAIN allEvents : allEvents[i].start # allEvents[j].start
    /\ result.totalLanes = Len(allEvents)

\* C8 as stated: events with pairwise non-overlapping ranges get totalLanes = 1
\* and lane 0 each. The empty list has no lane at all.
C8_DisjointOneLane_AsStated ==
    (Returned /\ PairwiseDisjoint(allEvents)) =>
        /\ result.totalLanes = 1
        /\ \A k \in DOMAIN result.layout : result.layout[k].lane = 0

\* C8, amended: one or more events with pairwise non-overlapping ranges get
\* totalLanes = 1 and lane 0 each, an event that starts where another ends
\* included.
C8_DisjointOneLane ==
    (Returned /\ allEvents # <<>> /\ PairwiseDisjoint(allEvents)) =>
        /\ result.totalLanes = 1
        /\ \A k \in DOMAIN result.layout : result.layout[k].lane = 0

\* An event that starts exactly where another one ends, both in lane 0.
C8_Witness ==
    /\ Returned
    /\ PairwiseDisjoint(allEvents)
    /\ \E i, j \in DOMAIN allEvents : i # j /\ allEvents[i].end = allEvents[j].start
    /\ result.totalLanes = 1

\* C9: one layout entry per input event, each with a lane >= 0, and totalLanes
\* is the greatest lane plus one, 0 for the empty list.
C9_OneEntryPerEvent ==
    Returned =>
        LET layout == result.layout
        IN  /\ Len(layout) = Len(allEvents)
            /\ \A i \in DOMAIN allEvents :
                  Cardinality({ k \in DOMAIN layout : layout[k].event = allEvents[i] }) = 1
            /\ \A k \in DOMAIN layout : layout[k].lane \in Nat
            /\ IF allEvents = <<>> THEN result.totalLanes = 0
               ELSE /\ \E k \in DOMAIN layout : result.totalLanes = layout[k].lane + 1
                    /\ \A k \in DOMAIN layout : result.totalLanes >= layout[k].lane + 1

\* Several events in several lanes.
C9_Witness ==
    /\ Returned
    /\ Len(allEvents) >= 3
    /\ result.totalLanes >= 2
    /\ \E k \in DOMAIN result.layout : result.layout[k].lane = 0 /\ k > 1

\* C10: events with an equal start are placed in the order of the input list,
\* so the lanes are fixed by the ordered list.
C10_EqualStartsInInputOrder ==
    Returned =>
        \A i, j \in DOMAIN allEvents :
            (i < j /\ allEvents[i].start = allEvents[j].start)
                => PlaceOf(result.layout, i) < PlaceOf(result.layout, j)

\* Two events with an equal start and different ends, whose order decides
\* which lane a later event goes to.
C10_Witness ==
    /\ Returned
    /\ \E i, j \in DOMAIN allEvents :
          /\ i < j
          /\ allEvents[i].start = allEvents[j].start
          /\ allEvents[i].end # allEvents[j].end
          /\ result.layout[PlaceOf(result.layout, i)].lane = 0
          /\ result.layout[PlaceOf(result.layout, j)].lane = 1

\* ---------------------------------------------------------------------------
\* Properties of the drag and of the timeline (Spec)
\* ---------------------------------------------------------------------------

\* The last handler was a pointer move that called onEventUpdate.
Emitted == lastUpdate # None

EventLength(e) == e.end - e.start

\* C3 as stated: every update emitted by a pointer move has 0 <= newStart and
\* newStart + (end - start) <= duration. An event longer than the duration,
\* left behind by a change of the duration setting (C5), is clamped to start 0
\* and ends after the duration.
C3_DragWithinBounds ==
    Emitted =>
        /\ 0 <= lastUpdate.event.start
        /\ lastUpdate.event.start + EventLength(lastUpdate.of) <= lastUpdate.duration

\* C4: no step changes the length end - start of an event that stays in the
\* timeline, so the dragged event has the same length after any sequence of
\* pointer moves as before the gesture.
C4_SameLength ==
    \A i \in DOMAIN timeline, j \in DOMAIN timeline' :
        timeline[i].id = timeline'[j].id =>
            EventLength(timeline'[j]) = EventLength(timeline[i])

C4_DragKeepsLength == [][C4_SameLength]_vars

\* A pointer move of a gesture has moved the dragged event, two seconds long,
\* away from where the scrubber put it.
C4_Witness ==
    /\ Emitted
    /\ draggingEvent # None
    /\ \E i \in DOMAIN timeline :
          /\ timeline[i] = lastUpdate.event
          /\ timeline[i].id = draggingEvent.id
          /\ timeline[i].start # lastUpdate.of.start
          /\ timeline[i].start > 1
          /\ EventLength(timeline[i]) = 2

\* C5 as stated: every event of the timeline has 0 <= start and
\* end <= duration, the duration derived from the current setting.
C5_EventsWithinDuration ==
    \A i \in DOMAIN timeline :
        0 <= timeline[i].start /\ timeline[i].end <= duration

\* A step of one of the pointer moves, one of the drag starts.
PointerMoveStep == \E pointer \in PointerPositions : handleMouseMove(pointer)
DragStartStep ==
    \E id \in EventIds(timeline), grab \in GrabPositions : handleMouseDown(id, grab)

\* C11: a pointer release leaves no current drag; while there is none, no
\* pointer move emits an update or changes the timeline, and only a drag
\* start ends the idle state.
C11_IdleStep ==
    /\ handleMouseUp => draggingEvent' = None
    /\ draggingEvent = None => ~Emitted'
    /\ (draggingEvent = None /\ PointerMoveStep) => timeline' = timeline
    /\ (draggingEvent = None /\ draggingEvent' # None) => DragStartStep

C11_IdleAfterRelease == [][C11_IdleStep]_vars

\* An event that a drag has moved to where no scrubber cell puts it, and the
\* drag released: no current drag, the event still in the timeline.
C11_Witness ==
    /\ draggingEvent = None
    /\ ~Emitted
    /\ \E i \in DOMAIN timeline : timeline[i].start > 1

\* C12 as stated: a drag start happens only while no drag is active. The
\* draggingEvent state holds one drag at most, but handleMouseDown sets it
\* whatever it holds: a second button pressed on an event during a drag
\* starts a drag before the release of the first.
C12_DragStartStep == DragStartStep => draggingEvent = None

C12_DragStartOnlyWhenIdle == [][C12_DragStartStep]_vars

\* Every event of the timeline spans one second at least.
SpansPositive == \A i \in DOMAIN timeline : timeline[i].start + 1 <= timeline[i].end

\* A commit of a scrubber that adds an event: the event covers the cell of
\* the mouse down and the cell of the last mouse enter, whichever comes first.
CommitCoversSelection ==
    \A key \in GlobalKeys :
        (ScrubAddClick(key) /\ Len(timeline') = Len(timeline) + 1) =>
            LET event == timeline'[Len(timeline')]
            IN  /\ event.start <= scrub[key].start /\ scrub[key].start < event.end
                /\ event.start <= scrub[key].end /\ scrub[key].end < event.end

\* C16: in every reachable state every event of the timeline has start < end
\* and spans one second at least; a scrubber commit creates such an event
\* whichever direction the range was selected in, and no step makes
\* start >= end.
C16_PositiveSpan == []SpansPositive /\ [][CommitCoversSelection]_vars

\* An event committed from a selection of two cells and then moved by a drag
\* that is over.
C16_Witness ==
    /\ timeline # <<>>
    /\ \E i \in DOMAIN timeline :
          /\ EventLength(timeline[i]) = 2
          /\ timeline[i].start > 1
    /\ draggingEvent = None
    /\ scrub # EmptyObject

\* ---------------------------------------------------------------------------
\* Properties of the drag of one event (SpecDrag)
\* ---------------------------------------------------------------------------

\* A drag is active and its event is in the timeline.
Dragging == draggingEvent # None /\ draggingEvent.id \in EventIds(timeline)

\* The start the pointer position gives the dragged event.
StartAt(pointer) ==
    ClampedStart(NewStart(Percent(pointer), duration, draggingEvent.startOffset),
                 duration, EventLength(FindEvent(timeline, draggingEvent.id)))

\* C13: a pointer move during a drag emits an update exactly when the clamped
\* start differs from the current start of the dragged event; when they are
\* equal no update is emitted and the timeline is unchanged.
C13_MoveStep ==
    Dragging =>
        \A pointer \in DragPointers :
            handleMouseMove(pointer) =>
                LET same == StartAt(pointer) = FindEvent(timeline, draggingEvent.id).start
                IN  /\ Emitted' <=> ~same
                    /\ same => timeline' = timeline
                    /\ Emitted' => lastUpdate'.event.start = StartAt(pointer)

C13_EmitsOnlyOnChange == [][C13_MoveStep]_vars

\* A drag has moved its event to a start later than any it began with, and a
\* pointer position that keeps it there has emitted nothing.
C13_Witness ==
    /\ Dragging
    /\ ~Emitted
    /\ FindEvent(timeline, draggingEvent.id).start > DragMaxStart
    /\ \E pointer \in DragPointers :
          StartAt(pointer) = FindEvent(timeline, draggingEvent.id).start

\* C14: for a dragged event whose length end - start is greater than or equal
\* to the duration, every pointer position gives the start 0, and every
\* update emitted for such an event has the start 0.
C14_LongEventClampedToZero ==
    /\ (Dragging /\ EventLength(FindEvent(timeline, draggingEvent.id)) >= duration) =>
          \A pointer \in DragPointers : StartAt(pointer) = 0
    /\ (Emitted /\ EventLength(lastUpdate.of) >= lastUpdate.duration) =>
          lastUpdate.event.start = 0

\* A pointer move has brought an event longer than the duration from a later
\* start to the start 0.
C14_Witness ==
    /\ Emitted
    /\ EventLength(lastUpdate.of) > lastUpdate.duration
    /\ lastUpdate.of.start > 0
    /\ lastUpdate.event.start = 0
    /\ Dragging

\* The scenario of C15: the event {start: 2, end: 5} is dragged, grabbed at its
\* left edge (offset 0), on a timeline of duration 10.
Scenario ==
    /\ Dragging
    /\ duration = 10
    /\ draggingEvent.startOffset = <<0, 1>>
    /\ FindEvent(timeline, draggingEvent.id).start = 2
    /\ FindEvent(timeline, draggingEvent.id).end = 5

\* The pointer moves to the position of time 9: 9/10 of the timeline's width.
ScenarioMove == Scenario /\ handleMouseMove(<<9, 10>>)

\* C15 as stated: the move of the scenario yields the clamped start 5.
C15_ScenarioStep_AsStated ==
    ScenarioMove => FindEvent(timeline', draggingEvent.id).start = 5

C15_ScenarioStart_AsStated == [][C15_ScenarioStep_AsStated]_vars

\* C15, amended: the move of the scenario yields the clamped start
\* min(9, 10 - 3) = 7 and the end 10, and the update is emitted.
C15_ScenarioStep ==
    ScenarioMove =>
        /\ FindEvent(timeline', draggingEvent.id).start = 7
        /\ FindEvent(timeline', draggingEvent.id).end = 10
        /\ Emitted'
        /\ NewStart(Percent(<<9, 10>>), duration, draggingEvent.startOffset) = 9

C15_ScenarioStart == [][C15_ScenarioStep]_vars

\* The state after the move of the scenario: the event {2, 5} of a timeline
\* of duration 10, grabbed at offset 0, has been moved to {7, 10}.
C15_Witness ==
    /\ Emitted
    /\ Dragging
    /\ draggingEvent.startOffset = <<0, 1>>
    /\ lastUpdate.duration = 10
    /\ lastUpdate.of.start = 2 /\ lastUpdate.of.end = 5
    /\ lastUpdate.event.start = 7 /\ lastUpdate.event.end = 10
    /\ FindEvent(timeline, draggingEvent.id) = lastUpdate.event

\* ---------------------------------------------------------------------------
\* Properties of the commits of a scrubber (SpecCommit)
\* ---------------------------------------------------------------------------

\* A field value without content: no list, the empty list, or the list [''] of
\* an emptied textarea.
IsEmptyValue(value) == value = <<>> \/ value = << <<>> >>

\* C17: the commit of a scrubber range for a field whose current value is
\* empty leaves the timeline as it is and raises the alert that names the
\* field.
C17_CommitStep ==
    (ScrubAddClick(ActionKey) /\ IsEmptyValue(CurrentValue(subjects, params, ActionKey))) =>
        /\ timeline' = timeline
        /\ alerted' = [paramLabel |-> ActionPath[2]]

C17_EmptyValueNoEvent == [][C17_CommitStep]_vars

\* The alert was raised for the field while it held the value [''] of an
\* emptied textarea, and no event was added.
C17_Witness ==
    /\ alerted # None
    /\ CurrentValue(subjects, params, ActionKey) = << <<>> >>
    /\ timeline = <<>>
    /\ scrub[ActionKey] = ScrubIdle

\* ---------------------------------------------------------------------------
\* Properties of the removal of a subject (SpecRemove)
\* ---------------------------------------------------------------------------

\* The place of the event with id in a list of events with different ids.
PlaceIn(events, id) == CHOOSE i \in DOMAIN events : events[i].id = id

\* C18: the removal of a subject takes out of the timeline every event whose
\* subjectId is the id of that subject, and leaves every other event in it,
\* unchanged and in the same relative order.
C18_RemoveStep ==
    \A id \in SubjectIdsOfRuns :
        removeSubject(id) =>
            /\ \A j \in DOMAIN timeline' : timeline'[j].subjectId # id
            /\ \A i \in DOMAIN timeline :
                  timeline[i].subjectId # id =>
                      \E j \in DOMAIN timeline' : timeline'[j] = timeline[i]
            /\ \A j \in DOMAIN timeline' : \E i \in DOMAIN timeline : timeline[i] = timeline'[j]
            /\ \A j, k \in DOMAIN timeline' :
                  j < k => PlaceIn(timeline, timeline'[j].id) < PlaceIn(timeline, timeline'[k].id)
            /\ Len(timeline') = Cardinality({ i \in DOMAIN timeline : timeline[i].subjectId # id })

C18_RemoveSubjectCascade == [][C18_RemoveStep]_vars

\* The first of two subjects is removed; of three events an event of no
\* subject and an event of the other subject are left.
C18_Witness ==
    /\ Len(subjects) = 1
    /\ subjects[1].id = 2
    /\ nextId = 6
    /\ Len(timeline) = 2
    /\ \E i, j \in DOMAIN timeline : timeline[i].subjectId = 0 /\ timeline[j].subjectId = 2

\* ---------------------------------------------------------------------------
\* Properties of the parameter tree (SpecParams)
\* ---------------------------------------------------------------------------

\* No leaf of the tree is the empty string or the empty list.
NoEmptyLeaf ==
    \A category \in DOMAIN params : \A key \in DOMAIN params[category] :
        params[category][key] # <<>>

\* A call of handleParamChange with an empty value for path: the leaf is gone,
\* its category is there, the other leaves and categories are as they were.
EmptyValueStep ==
    \A path \in ParamPaths :
        handleParamChange(path, <<>>) =>
            /\ path[1] \in DOMAIN params'
            /\ path[2] \notin DOMAIN params'[path[1]]
            /\ \A category \in DOMAIN params :
                  /\ category \in DOMAIN params'
                  /\ \A key \in DOMAIN params[category] :
                        (category # path[1] \/ key # path[2]) =>
                            /\ key \in DOMAIN params'[category]
                            /\ params'[category][key] = params[category][key]
            /\ DOMAIN params' = DOMAIN params \cup {path[1]}

\* C19: handleParamChange with an empty value (the empty string or the empty
\* list) removes the leaf of the path and stores nothing in its place, so no
\* leaf of the tree is ever an empty string or an empty list; the category of
\* the path is kept, as an empty object when its last key is removed.
C19_EmptyValueDeletesLeaf == []NoEmptyLeaf /\ [][EmptyValueStep]_vars

\* The category scene is an empty object, its only key removed, while the
\* category technical has a key left of two.
C19_Witness ==
    /\ "scene" \in DOMAIN params /\ DOMAIN params["scene"] = {}
    /\ "technical" \in DOMAIN params /\ DOMAIN params["technical"] = {"duration"}

\* ---------------------------------------------------------------------------
\* Properties of the output effect (SpecSubjects)
\* ---------------------------------------------------------------------------

\* C20 as stated: one of the flags hasSubjects, hasParams, hasTimeline is true
\* if and only if the text projection emits a subject, category, timeline or
\* negative-keyword section. A subject whose only attribute was reset to []
\* has three keys, so hasSubjects is true, and no line.
C20_FlagsAgreeWithText ==
    (hasSubjects(subjects) \/ hasParams(params) \/ hasTimeline(timeline))
        <=> TextSections(subjects, params, timeline) # <<>>

\* ---------------------------------------------------------------------------
\* Properties of the text projection (SpecOutput)
\* ---------------------------------------------------------------------------

\* The sections of the text of the current state.
Text == TextSections(subjects, params, timeline)

KindRank(kind) ==
    CASE kind = "subject" -> 1 [] kind = "category" -> 2
      [] kind = "timeline" -> 3 [] kind = "negative" -> 4

\* The place of a category in promptOrder, of a subject name in the subject list.
OrderPlace(category) == CHOOSE i \in DOMAIN promptOrder : promptOrder[i] = category
SubjectPlace(name) == CHOOSE i \in DOMAIN subjects : subjects[i].name = name

\* The place of event k among the events by start, equal starts as in the list.
StartRank(k) ==
    1 + Cardinality({ j \in DOMAIN timeline :
                        \/ timeline[j].start < timeline[k].start
                        \/ timeline[j].start = timeline[k].start /\ j < k })

\* C21: the sections of the text are in a fixed order: the subjects' sections
\* in the order of the subject list (none for a subject without attributes),
\* then the categories in the order directorNotes, scene, composition, camera,
\* style, audio, technical, then one timeline section with the events by
\* start, equal starts in the order of the list, then one negative-keywords
\* section.
C21_FixedSectionOrder ==
    LET text == Text
    IN  /\ \A i, j \in DOMAIN text :
              i < j =>
                  /\ KindRank(text[i].kind) <= KindRank(text[j].kind)
                  /\ text[i].kind = "subject" /\ text[j].kind = "subject" =>
                        SubjectPlace(text[i].title) < SubjectPlace(text[j].title)
                  /\ text[i].kind = "category" /\ text[j].kind = "category" =>
                        OrderPlace(text[i].title) < OrderPlace(text[j].title)
                  /\ text[i].kind \in {"timeline", "negative"} => text[j].kind # text[i].kind
        /\ \A k \in DOMAIN subjects :
              DOMAIN subjects[k].attrs = {} =>
                  \A i \in DOMAIN text :
                      text[i].kind = "subject" => text[i].title # subjects[k].name
        /\ \A i \in DOMAIN text :
              text[i].kind = "timeline" =>
                  /\ Len(text[i].lines) = Len(timeline)
                  /\ \A k \in DOMAIN timeline :
                        text[i].lines[StartRank(k)] = EventLine(subjects, timeline[k])

\* Two subject sections, the sections of scene and technical, a timeline
\* section for two events that are not in start order, and the negative
\* keywords.
C21_Witness ==
    /\ Len(Text) = 6
    /\ Text[1].kind = "subject" /\ Text[2].kind = "subject"
    /\ Text[3].kind = "category" /\ Text[3].title = "scene"
    /\ Text[4].kind = "category" /\ Text[4].title = "technical"
    /\ Text[5].kind = "timeline" /\ Text[6].kind = "negative"
    /\ Len(timeline) = 2 /\ timeline[1].start > timeline[2].start

\* ---------------------------------------------------------------------------
\* Properties of the text of the parameter tree (SpecParams)
\* ---------------------------------------------------------------------------

\* C22 as stated: with technical.negativeKeywords set, the technical section
\* leaves out that sub-field only, the other sub-fields of technical with a
\* value are rendered in it, and the negative keywords are rendered in the
\* negative-keywords section. The text has no technical section at all then,
\* and its negative-keywords section is that of rules.negativeKeywords.
C22_OnlyNegativeKeywordsSkipped ==
    LET text == Text
    IN  ("technical" \in DOMAIN params /\ "negativeKeywords" \in DOMAIN params["technical"]
         /\ formatWildcard(params["technical"]["negativeKeywords"]) # <<>>) =>
            /\ \E i \in DOMAIN text :
                  /\ text[i].kind = "negative"
                  /\ text[i].text = Join(params["technical"]["negativeKeywords"], <<",", " ">>)
            /\ \A key \in DOMAIN params["technical"] \ {"negativeKeywords"} :
                  formatWildcard(params["technical"][key]) # <<>> =>
                      \E i \in DOMAIN text :
                          /\ text[i].kind = "category" /\ text[i].title = "technical"
                          /\ \E line \in text[i].lines : line.key = key
            /\ \A i \in DOMAIN text :
                  (text[i].kind = "category" /\ text[i].title = "technical") =>
                      \A line \in text[i].lines : line.key # "negativeKeywords"

\* ---------------------------------------------------------------------------
\* Properties of the rendering of a value (SpecWildcard)
\* ---------------------------------------------------------------------------

\* The place in the alternation of `val` before its k-th element: the brace
\* for the first, and one separator after each element before it.
RECURSIVE Offset(_, _)
Offset(val, k) == IF k = 1 THEN 1 ELSE Offset(val, k - 1) + Len(val[k - 1]) + 1

\* `rendered` is {a|b|c} for the elements a, b, c of `val`, in that order.
IsAlternation(rendered, val) ==
    /\ Len(rendered) = Offset(val, Len(val) + 1)
    /\ rendered[1] = "{"
    /\ \A k \in DOMAIN val :
          /\ SubSeq(rendered, Offset(val, k) + 1, Offset(val, k + 1) - 1) = val[k]
          /\ rendered[Offset(val, k + 1)] = IF k = Len(val) THEN "}" ELSE "|"

\* The lines of the sections of one kind and title of a text.
LinesOf(text, kind, title) ==
    UNION { text[i].lines :
              i \in { j \in DOMAIN text : text[j].kind = kind /\ text[j].title = title } }

\* The lines of `key` among `lines` are what the value `val` of the key asks for.
RenderedAs(lines, key, val) ==
    LET line == { l \in lines : l.key = key }
    IN  /\ Len(val) = 0 => line = {}
        /\ Len(val) = 1 =>
              line = IF val[1] = <<>> THEN {} ELSE { [key |-> key, text |-> val[1]] }
        /\ Len(val) >= 2 =>
              /\ Cardinality(line) = 1
              /\ \A l \in line : IsAlternation(l.text, val)

ValueOrMissing(obj, key) == IF key \in DOMAIN obj THEN obj[key] ELSE <<>>

\* C23: in the text, a value that is a one-element list is written as that
\* element, a list of two or more elements as {a|b|c} in the order of the
\* list, and a value that is empty or missing has no line.
C23_WildcardRendering ==
    LET text == Text
    IN  /\ \A i \in DOMAIN subjects : \A key \in SubjectKeys :
              RenderedAs(LinesOf(text, "subject", subjects[i].name), key,
                         ValueOrMissing(subjects[i].attrs, key))
        /\ RenderedAs(LinesOf(text, "category", ActionPath[1]), ActionPath[2],
                      IF ActionPath[1] \in DOMAIN params
                      THEN ValueOrMissing(params[ActionPath[1]], ActionPath[2])
                      ELSE <<>>)

\* The pose of the subject was emptied and has no line; scene.action has
\* three values, one of them the empty string, and is written {bc||a}.
C23_Witness ==
    /\ Len(subjects) = 1
    /\ "pose" \in DOMAIN subjects[1].attrs
    /\ subjects[1].attrs["pose"] = <<>>
    /\ "scene" \in DOMAIN params
    /\ "action" \in DOMAIN params["scene"]
    /\ params["scene"]["action"] = << <<"b", "c">>, <<>>, <<"a">> >>
    /\ Text = << [kind |-> "category", title |-> "scene",
                  lines |-> { [key |-> "action",
                               text |-> <<"{", "b", "c", "|", "|", "a", "}">>] }] >>

\* ---------------------------------------------------------------------------
\* Properties of the updates of a drag (SpecReflow)
\* ---------------------------------------------------------------------------

\* The fields of an event a drag has no business with.
Identity(event) ==
    <<event.id, event.paramPath, event.paramName, event.paramLabel, event.subjectId, event.value>>

\* C24: a step in which a drag emits an update leaves the timeline with the
\* same length and the same events at the same places, but for the start and
\* end of the event with the id of the update: its id, paramPath, paramName,
\* paramLabel, subjectId and value stay, and every other event is unchanged.
C24_DragChangesOnlyStartAndEnd ==
    [][lastUpdate' # None =>
          /\ Len(timeline') = Len(timeline)
          /\ \A i \in DOMAIN timeline :
                /\ Identity(timeline'[i]) = Identity(timeline[i])
                /\ timeline[i].id # lastUpdate'.event.id => timeline'[i] = timeline[i]]_vars

\* A drag has moved the second of two events, the event of the pose of the
\* subject, from where it was to the start 1; the first event lies at 2.
C24_Witness ==
    /\ lastUpdate # None
    /\ Len(timeline) = 2
    /\ timeline[1].id = 2
    /\ timeline[1].start = 2
    /\ timeline[2] = lastUpdate.event
    /\ timeline[2].id = 3
    /\ timeline[2].subjectId = 1
    /\ timeline[2].start = 1
    /\ timeline[2].end = 3
    /\ lastUpdate.of.start # 1

\* The dragged event is no longer in the timeline.
DraggedIsRemoved ==
    /\ draggingEvent # None
    /\ draggingEvent.id \notin EventIds(timeline)

\* C27: an event that was removed while it was dragged does not come back.
\* A step never adds an id to the timeline; while the dragged id is neither
\* in the timeline nor in the list the listeners closed over, no step emits
\* an update; and an update for an id that is not in the timeline, which the
\* listeners of an earlier render compute from their copy of the list,
\* leaves the timeline as it is.
C27_RemovedEventStaysRemoved ==
    [][/\ EventIds(timeline') \subseteq EventIds(timeline)
       /\ (DraggedIsRemoved /\ draggingEvent.id \notin EventIds(listenerEvents)) =>
              lastUpdate' = None
       /\ (lastUpdate' # None /\ lastUpdate'.event.id \notin EventIds(timeline)) =>
              timeline' = timeline]_vars

\* The event 3 was removed during its drag, and the listeners of the render
\* before the removal have emitted an update for it from their copy of the
\* list: the timeline holds the event 2 alone.
C27_Witness ==
    /\ DraggedIsRemoved
    /\ draggingEvent.id = 3
    /\ 3 \in EventIds(listenerEvents)
    /\ lastUpdate # None
    /\ lastUpdate.event.id = 3
    /\ EventIds(timeline) = {2}

\* ---------------------------------------------------------------------------
\* Properties of the owners of the events (SpecOwners)
\* ---------------------------------------------------------------------------

\* C25: in every state, an event that has a subjectId (0 is the event of a
\* field of the scene, which has none) has the id of a subject of the list.
C25_EventsReferToSubjects ==
    \A i \in DOMAIN timeline :
        timeline[i].subjectId # 0 => timeline[i].subjectId \in SubjectIds(subjects)

\* The first subject was removed, and the timeline holds an event of the
\* subject that is left, dragged away from the cell it was committed at.
C25_Witness ==
    /\ Len(subjects) = 1
    /\ subjects[1].id = 2
    /\ Len(timeline) = 1
    /\ timeline[1].subjectId = 2
    /\ timeline[1].start > 0

\* ---------------------------------------------------------------------------
\* Properties of the image studio (SpecImage)
\* ---------------------------------------------------------------------------

\* C26: while the prompt type is Image the timeline is empty: the change to
\* Image empties it, and no step made in Image mode puts an event in it.
C26_ImageHasNoTimeline ==
    promptType = "Image" => timeline = <<>>

\* An event was committed in a video studio (its id was made, and the field
\* it animates still has its value and its flag) and the prompt type was then
\* changed to Image: the event is gone.
C26_Witness ==
    /\ promptType = "Image"
    /\ nextId = 3
    /\ ParamKey(0, ActionPath) \in animatedParams
    /\ CurrentValue(subjects, params, ParamKey(0, ActionPath)) # <<>>
    /\ timeline = <<>>

\* ---------------------------------------------------------------------------
\* Properties of Reset All (SpecOwners)
\* ---------------------------------------------------------------------------

\* C28: a step of Reset All leaves one subject without attributes, no
\* parameter, no event and no animated flag, and the prompt type it found;
\* the duration is then the default 12.
C28_ResetAll ==
    [][resetState =>
          /\ Len(subjects') = 1
          /\ DOMAIN subjects'[1].attrs = {}
          /\ \A category \in DOMAIN params' : DOMAIN params'[category] = {}
          /\ timeline' = <<>>
          /\ animatedParams' = {}
          /\ promptType' = promptType
          /\ DurationOf(params') = 12]_vars

\* The studio after a Reset All that found an event under drag: the subject
\* is subject_1 with an id made after the first, nothing else is left, and
\* the drag of the event that is gone is still on.
C28_Witness ==
    /\ promptType = "Video"
    /\ Len(subjects) = 1
    /\ subjects[1].name = 1
    /\ subjects[1].id = 3
    /\ DOMAIN subjects[1].attrs = {}
    /\ params = EmptyObject
    /\ timeline = <<>>
    /\ animatedParams = {}
    /\ draggingEvent # None
    /\ duration = 12

====
